---- MODULE Spec2Model ----
(***************************************************************************)
(* Model of the solaredge plugin of InkyPi:                                *)
(*   src/plugins/solaredge/solaredge.py   (Solaredge: generate_image,      *)
(*                                         parse_solar_data)               *)
(*   src/plugins/solaredge/solar_base.py  (SolarBase: get_dap_data,        *)
(*                                         get_renewable_data and the two  *)
(*                                         fetchers)                       *)
(*                                                                         *)
(* One call of generate_image is a run of the state machine               *)
(*   idle -> price_wait -> ren_wait -> render -> done -> idle              *)
(* whose steps are cut at the blocking calls (the two HTTP requests and    *)
(* the renderer).                                                          *)
(*                                                                         *)
(* Representation of Python values:                                        *)
(*   None                 the record None                                  *)
(*   a number n           Num(n); prices are integers in a fixed unit      *)
(*                        (received: 0.01 EUR/MWh, normalised: 0.01        *)
(*                        Cent/kWh), shares in 0.01 %                      *)
(*   a str that is built  a sequence of one-character strings              *)
(*   a dict               a function from keys to values                   *)
(*   a call's outcome     Ret(v) or Exc(e)                                 *)
(* A float operation that rounds a decimal tie is decided by the binary    *)
(* representation of its operand; the model leaves the direction of a tie  *)
(* open (parameter up).                                                    *)
(***************************************************************************)
EXTENDS Integers, Sequences, FiniteSets, TLC

VARIABLES
    pc,                    \* position of the generate_image call
    settings,              \* the settings dict handed to generate_image
    cdt,                   \* datetime.now() of parse_solar_data, minute of the day
    locale,                \* the process-wide locale (locale.setlocale)
    loc,                   \* descimalSign, amPm, currencySymbol of parse_solar_data
    requests,              \* HTTP requests issued by the running build, in order
    response,              \* outcome of the HTTP request answered last
    now,                   \* the clock read by the selector that ran last
    price_data,            \* what fetch_price_data returned
    dap_data,              \* what get_dap_data returned
    renewable_percentage,  \* what fetch_renewable_share_forecast returned
    renewable_data,        \* what get_renewable_data returned
    data,                  \* the tile parse_solar_data returned
    exc,                   \* the exception that left parse_solar_data
    rendered,              \* render_image has been called
    outcome                \* how generate_image ended

vars == <<pc, settings, cdt, locale, loc, requests, response, now, price_data,
          dap_data, renewable_percentage, renewable_data, data, exc, rendered,
          outcome>>

----------------------------------------------------------------------------
(* Bounds of the model *)

\* longest timestamp list and longest value list of a response
MaxLen == 3

----------------------------------------------------------------------------
(* Python values *)

None == [none |-> TRUE]
Num(n) == [num |-> n]
Ret(v) == [tag |-> "return", val |-> v]
Exc(e) == [tag |-> "raise", exc |-> e]

\* dict.get(key, default)
Get(d, k, default) == IF k \in DOMAIN d THEN d[k] ELSE default

\* truth value of d.get(k) for a key that holds a list when present
TruthyList(d, k) == k \in DOMAIN d /\ Len(d[k]) > 0

\* the classes an exception is an instance of
Ancestors(e) ==
    CASE e = "Timeout"         -> {"Timeout", "RequestException", "Exception"}
      [] e = "ConnectionError" -> {"ConnectionError", "RequestException", "Exception"}
      [] e = "HTTPError"       -> {"HTTPError", "RequestException", "Exception"}
      [] e = "JSONDecodeError" -> {"JSONDecodeError", "ValueError", "Exception"}
      [] e = "IndexError"      -> {"IndexError", "LookupError", "Exception"}
      [] e = "RuntimeError"    -> {"RuntimeError", "Exception"}

\* try: body  except handled...: return None
TryReturnNone(result, handled) ==
    IF result.tag = "raise" /\ Ancestors(result.exc) \cap handled # {}
    THEN Ret(None)
    ELSE result

----------------------------------------------------------------------------
(* Strings and number formatting *)

NA == <<"N", "/", "A">>

DigitChars == <<"0", "1", "2", "3", "4", "5", "6", "7", "8", "9">>

RECURSIVE NatStr(_)
NatStr(n) == IF n < 10 THEN <<DigitChars[n + 1]>>
             ELSE NatStr(n \div 10) \o <<DigitChars[(n % 10) + 1]>>

Pad2(n) == <<DigitChars[(n \div 10) + 1], DigitChars[(n % 10) + 1]>>

Pad3(n) == <<DigitChars[(n \div 100) + 1]>> \o Pad2(n % 100)

\* n / d rounded to the nearest integer; up decides a tie
RoundTie(n, d, up) ==
    LET fl == n \div d
        r  == n % d
    IN  IF 2 * r < d THEN fl
        ELSE IF 2 * r > d THEN fl + 1
        ELSE IF up THEN fl + 1 ELSE fl

\* f"{q / 10000:.3f}": q in 0.0001 units of currency, three decimals
Format3f(q, up) ==
    LET m == RoundTie(q, 10, up)
        a == IF m < 0 THEN -m ELSE m
    IN  (IF q < 0 THEN <<"-">> ELSE <<>>)
        \o NatStr(a \div 1000) \o <<".">> \o Pad3(a % 1000)

\* f"{s / 100:.1f}": s in 0.01 %, one decimal
Format1f(s, up) ==
    LET m == RoundTie(s, 10, up)
        a == IF m < 0 THEN -m ELSE m
    IN  (IF s < 0 THEN <<"-">> ELSE <<>>)
        \o NatStr(a \div 10) \o <<".">> \o <<DigitChars[(a % 10) + 1]>>

\* replace_decimals of parse_solar_data, for a str argument
replace_decimals(s1, descimalSign) ==
    [i \in 1..Len(s1) |-> IF s1[i] = "." THEN descimalSign ELSE s1[i]]

\* seconds Europe/Berlin is ahead of UTC (standard time)
BerlinUtcOffset == 3600

\* datetime.fromtimestamp(t, tz=cet).strftime("%H:%M")
StrfHM(t) ==
    LET m == ((t + BerlinUtcOffset) \div 60) % 1440
    IN  Pad2(m \div 60) \o <<":">> \o Pad2(m % 60)

\* cdt.strftime('%H:%M'), cdt.strftime('%I:%M'), cdt.strftime('%p')
ClockHM(m) == Pad2(m \div 60) \o <<":">> \o Pad2(m % 60)

ClockIM(m) ==
    LET h == (m \div 60) % 12
    IN  Pad2(IF h = 0 THEN 12 ELSE h) \o <<":">> \o Pad2(m % 60)

ClockP(m) == IF m \div 60 < 12 THEN <<"A", "M">> ELSE <<"P", "M">>

----------------------------------------------------------------------------
(* SolarBase.fetch_price_data *)

\* timeout= of both requests.get calls, seconds
RequestTimeout == 10

\* the except clauses without the one for ValueError
FetchHandledNoValueError == {"Timeout", "RequestException"}

\* the except clauses of both fetchers
FetchHandled == {"Timeout", "RequestException", "ValueError"}

\* the conversion guarded by "if p" in place of "if p is not None"
NormalizePriceTruthy(p, up) ==
    IF p = None \/ p.num = 0 THEN None ELSE Num(RoundTie(p.num, 10, up))

\* round(p * 0.1, 2) if p is not None else None
NormalizePrice(p, up) ==
    IF p = None THEN None ELSE Num(RoundTie(p.num, 10, up))

\* the try block: requests.get, raise_for_status, json, the conversion
PriceTryBlock(resp, up) ==
    IF resp.kind = "raise" THEN Exc(resp.exc)
    ELSE LET body == resp.body
         IN  Ret(IF TruthyList(body, "price")
                 THEN ("unit" :> "Cent / kWh") @@
                      [body EXCEPT !["price"] =
                          [i \in 1..Len(@) |-> NormalizePrice(@[i], up)]]
                 ELSE body)

fetch_price_data(resp, up) == TryReturnNone(PriceTryBlock(resp, up), FetchHandled)

----------------------------------------------------------------------------
(* SolarBase.get_dap_data *)

NoExc == ""

\* settings.get('showPriceData') == 'true'
ShowPrice(s) == "showPriceData" \in DOMAIN s /\ s["showPriceData"] = "true"

\* the no-data dict with the prices suffixed as in the data branch
DapUnavailableSuffixed(s, currency_symbol) ==
    [show |-> ShowPrice(s),
     icon |-> None,
     currency_symbol |-> currency_symbol,
     current_time |-> NA,
     current_price |-> NA \o <<" ", currency_symbol>>,
     next_time |-> NA,
     next_price |-> NA \o <<" ", currency_symbol>>]

\* the dict returned when there is no price data
DapUnavailable(s, currency_symbol) ==
    [show |-> ShowPrice(s),
     icon |-> None,
     currency_symbol |-> currency_symbol,
     current_time |-> NA,
     current_price |-> NA,
     next_time |-> NA,
     next_price |-> NA]

DapStart == [current_price |-> None, current_time |-> None,
             next_price |-> None, next_time |-> None, exc |-> NoExc]

\* the for loop over enumerate(unix_seconds), from index i on
RECURSIVE DapScan(_, _, _, _, _)
DapScan(unix_seconds, prices, n, i, st) ==
    IF i > Len(unix_seconds) THEN st
    ELSE IF unix_seconds[i] <= n
         THEN IF i > Len(prices) THEN [st EXCEPT !.exc = "IndexError"]
              ELSE DapScan(unix_seconds, prices, n, i + 1,
                           [st EXCEPT !.current_price = prices[i],
                                      !.current_time = Num(unix_seconds[i])])
         ELSE IF st.current_price # None /\ st.next_price = None
              THEN IF i > Len(prices) THEN [st EXCEPT !.exc = "IndexError"]
                   ELSE [st EXCEPT !.next_price = prices[i],
                                   !.next_time = Num(unix_seconds[i])]
              ELSE DapScan(unix_seconds, prices, n, i + 1, st)

\* the fallback without its assignment of the second entry to next
DapFallbackWithoutNext(unix_seconds, prices, st) ==
    IF st.exc = NoExc /\ st.current_price = None /\ Len(prices) > 0
    THEN [st EXCEPT !.current_price = prices[1],
                    !.current_time = Num(unix_seconds[1])]
    ELSE st

\* "Fallback if we don't have current price (use first available)"
DapFallback(unix_seconds, prices, st) ==
    IF st.exc = NoExc /\ st.current_price = None /\ Len(prices) > 0
    THEN LET s1 == [st EXCEPT !.current_price = prices[1],
                              !.current_time = Num(unix_seconds[1])]
         IN  IF Len(prices) > 1
             THEN IF Len(unix_seconds) < 2 THEN [s1 EXCEPT !.exc = "IndexError"]
                  ELSE [s1 EXCEPT !.next_price = prices[2],
                                  !.next_time = Num(unix_seconds[2])]
             ELSE s1
    ELSE st

\* price / 100, f"{...:.3f}", replace_decimals; "N/A" for None
PriceStr(p, descimalSign, up) ==
    IF p = None THEN NA ELSE replace_decimals(Format3f(p.num, up), descimalSign)

\* strftime("%H:%M"); "N/A" for None
TimeStr(t) == IF t = None THEN NA ELSE StrfHM(t.num)

\* the dict returned when there is price data
DapResult(s, currency_symbol, descimalSign, st, up) ==
    [show |-> ShowPrice(s),
     icon |-> None,
     currency_symbol |-> currency_symbol,
     current_time |-> TimeStr(st.current_time),
     current_price |-> PriceStr(st.current_price, descimalSign, up)
                       \o <<" ", currency_symbol>>,
     next_time |-> TimeStr(st.next_time),
     next_price |-> PriceStr(st.next_price, descimalSign, up)
                    \o <<" ", currency_symbol>>]

\* get_dap_data after its call of fetch_price_data, which ended as fetched
get_dap_data(fetched, s, currency_symbol, descimalSign, n, up) ==
    IF fetched.tag = "raise" THEN fetched
    ELSE LET pd == fetched.val
         IN  IF pd = None \/ ~TruthyList(pd, "price")
                \/ ~TruthyList(pd, "unix_seconds")
             THEN Ret(DapUnavailable(s, currency_symbol))
             ELSE LET st == DapFallback(pd["unix_seconds"], pd["price"],
                               DapScan(pd["unix_seconds"], pd["price"], n, 1,
                                       DapStart))
                  IN  IF st.exc # NoExc THEN Exc(st.exc)
                      ELSE Ret(DapResult(s, currency_symbol, descimalSign, st, up))

----------------------------------------------------------------------------
(* SolarBase.fetch_renewable_share_forecast and SolarBase.get_renewable_data *)

\* the loop body without the test for an absent share
RenPickAny(share, current_share) == share

\* "if ren_share[i] is not None: current_share = ren_share[i]"
RenPick(share, current_share) ==
    IF share # None THEN share ELSE current_share

\* the for loop over enumerate(unix_seconds), from index i on
RECURSIVE RenScan(_, _, _, _, _)
RenScan(unix_seconds, ren_share, current_unix, i, current_share) ==
    IF i > Len(unix_seconds) THEN Ret(current_share)
    ELSE IF unix_seconds[i] <= current_unix
         THEN IF i > Len(ren_share) THEN Exc("IndexError")
              ELSE RenScan(unix_seconds, ren_share, current_unix, i + 1,
                           RenPick(ren_share[i], current_share))
         ELSE Ret(current_share)

\* the try block: requests.get, raise_for_status, json, the selection
RenTryBlock(resp, current_unix) ==
    IF resp.kind = "raise" THEN Exc(resp.exc)
    ELSE LET unix_seconds == Get(resp.body, "unix_seconds", <<>>)
             ren_share    == Get(resp.body, "ren_share", <<>>)
         IN  IF Len(unix_seconds) = 0 \/ Len(ren_share) = 0 THEN Ret(None)
             ELSE RenScan(unix_seconds, ren_share, current_unix, 1, None)

fetch_renewable_share_forecast(resp, current_unix) ==
    TryReturnNone(RenTryBlock(resp, current_unix), FetchHandled)

\* settings.get('dapCountry') == 'DE-LU'
ShowRenewable(s) == "dapCountry" \in DOMAIN s /\ s["dapCountry"] = "DE-LU"

\* the percentage string of get_renewable_data
PercentageStr(renewable, descimalSign, up) ==
    IF renewable = None THEN NA
    ELSE replace_decimals(Format1f(renewable.num, up), descimalSign)
         \o <<" ", "%">>

\* get_renewable_data after its call of the fetcher, which ended as fetched
get_renewable_data(fetched, s, descimalSign, description, up) ==
    IF fetched.tag = "raise" THEN fetched
    ELSE Ret([show |-> ShowRenewable(s),
              icon |-> None,
              description |-> description,
              percentage |-> PercentageStr(fetched.val, descimalSign, up)])

----------------------------------------------------------------------------
(* Solaredge.parse_solar_data and Solaredge.generate_image *)

\* the locale name handed to locale.setlocale
LocaleName(country) == IF country = "de" THEN "de_DE.utf8" ELSE "en_US.utf8"

\* descimalSign, amPm and currencySymbol of the two branches on country
LocaleOf(country) ==
    IF country = "de"
    THEN [descimalSign |-> ",", amPm |-> <<"U", "h", "r">>, currencySymbol |-> "€"]
    ELSE [descimalSign |-> ".", amPm |-> <<>>, currencySymbol |-> "$"]

\* the "current_date" section: time and am_pm
CurrentDate(country, amPm, clock) ==
    [time  |-> IF country = "en" THEN ClockIM(clock) ELSE ClockHM(clock),
     am_pm |-> IF country = "en" THEN ClockP(clock) ELSE amPm]

\* the sections of the tile that depend on the settings or on fetched data
Tile(country, lc, clock, dap, renewable) ==
    [dap |-> dap,
     power_plant |->
        [consumption_today |->
            replace_decimals(<<"4", ".", "5">>, lc.descimalSign)
            \o <<" ", "k", "W", "h">>],
     current_date |-> CurrentDate(country, lc.amPm, clock),
     renewable |-> renewable]

PriceRequest(bzn) ==
    [url |-> "https://api.energy-charts.info/price",
     bzn |-> bzn, timeout |-> RequestTimeout]

RenewableRequest(country) ==
    [url |-> "https://api.energy-charts.info/ren_share_forecast",
     country |-> country, timeout |-> RequestTimeout]

\* an except clause that catches ValueError only
ParseFailedNarrow(e) ==
    IF "ValueError" \in Ancestors(e)
    THEN [tag |-> "raise", exc |-> "RuntimeError", msg |-> "please check logs."]
    ELSE [tag |-> "raise", exc |-> e, msg |-> e]

\* the except clause of generate_image around parse_solar_data
ParseFailed(e) ==
    IF "Exception" \in Ancestors(e)
    THEN [tag |-> "raise", exc |-> "RuntimeError", msg |-> "please check logs."]
    ELSE [tag |-> "raise", exc |-> e, msg |-> e]

\* the end of generate_image once render_image has returned image
Rendered(image) ==
    IF image = None
    THEN [tag |-> "raise", exc |-> "RuntimeError",
          msg |-> "Failed to take screenshot, please check logs."]
    ELSE [tag |-> "return", val |-> image]

----------------------------------------------------------------------------
(* The environment: settings, clocks and HTTP outcomes *)

SeqsUpTo(S, n) == UNION {[1..k -> S] : k \in 0..n}

TimeVals == {900 * k : k \in 1..MaxLen}
NowVals == {0} \cup TimeVals

Increasing(s) == \A i \in 1..(Len(s) - 1) : s[i] < s[i + 1]
Ascending(s) == \A i \in 1..(Len(s) - 1) : s[i] <= s[i + 1]

\* received prices in 0.01 EUR/MWh: null, 0, 100.0, -30.55
PriceVals == {None, Num(0), Num(10000), Num(-3055)}
\* received shares in 0.01 %: null, 0, 42.37
ShareVals == {None, Num(0), Num(4237)}

EmptyDict == [k \in {} |-> None]

Absent == "<absent>"

\* a settings dict; Absent leaves the key out
MkSettings(country, show, zone) ==
    LET keys == (IF country # Absent THEN {"country"} ELSE {})
                \cup (IF show # Absent THEN {"showPriceData"} ELSE {})
                \cup (IF zone # Absent THEN {"dapCountry"} ELSE {})
    IN  [k \in keys |-> CASE k = "country" -> country
                          [] k = "showPriceData" -> show
                          [] k = "dapCountry" -> zone]

SettingsOver(C, S, Z) == {MkSettings(c, s, z) : c \in C, s \in S, z \in Z}

\* requests.get or raise_for_status or json() raised e
Failed(e) == [kind |-> "raise", exc |-> e]
Json(body) == [kind |-> "json", body |-> body]

Failures == {Failed(e) : e \in {"Timeout", "ConnectionError", "HTTPError",
                                "JSONDecodeError"}}

PriceBodies ==
    {[unix_seconds |-> u, price |-> p] :
        u \in {s \in SeqsUpTo(TimeVals, MaxLen) : Increasing(s)},
        p \in SeqsUpTo(PriceVals, MaxLen)}
    \cup {EmptyDict, [unix_seconds |-> <<900>>], [price |-> <<Num(10000)>>]}

RenewableBodies ==
    {[unix_seconds |-> u, ren_share |-> p] :
        u \in {s \in SeqsUpTo(TimeVals, MaxLen) : Ascending(s)},
        p \in SeqsUpTo(ShareVals, MaxLen)}
    \cup {EmptyDict, [unix_seconds |-> <<900>>], [ren_share |-> <<Num(4237)>>]}

\* the responses of the whole-build specification: each failure, no data, a
\* series with an absent price, and lists of different lengths
SamplePriceBodies ==
    {EmptyDict,
     [unix_seconds |-> <<900>>, price |-> <<Num(10000)>>],
     [unix_seconds |-> <<900, 1800>>, price |-> <<Num(10000), None>>],
     [unix_seconds |-> <<900, 1800>>, price |-> <<Num(10000)>>]}

SampleRenewableBodies ==
    {EmptyDict,
     [unix_seconds |-> <<900>>, ren_share |-> <<Num(4237)>>],
     [unix_seconds |-> <<900, 1800>>, ren_share |-> <<Num(4237), None>>],
     [unix_seconds |-> <<900, 1800>>, ren_share |-> <<Num(0)>>]}

AllSettings == SettingsOver({Absent, "de", "en", "fr"}, {Absent, "true", "false"},
                            {Absent, "DE-LU", "AT"})
DapSettings == SettingsOver({"de"}, {Absent, "true"}, {"DE-LU"})
               \cup SettingsOver({"en"}, {"false", "True"}, {"DE-LU"})
RenSettings == SettingsOver({"de", "en"}, {"true"}, {Absent, "DE-LU", "AT"})

\* minutes of the day: 00:05 and 13:15
Clocks == {5, 795}

----------------------------------------------------------------------------
(* The state machine *)

Init ==
    /\ pc = "idle"
    /\ settings = EmptyDict
    /\ cdt = None
    /\ locale = "C"
    /\ loc = None
    /\ requests = <<>>
    /\ response = None
    /\ now = None
    /\ price_data = None
    /\ dap_data = None
    /\ renewable_percentage = None
    /\ renewable_data = None
    /\ data = None
    /\ exc = NoExc
    /\ rendered = FALSE
    /\ outcome = None

\* generate_image is called: parse_solar_data runs up to the requests.get of
\* fetch_price_data
GenerateImageOver(S, C) ==
    /\ pc = "idle"
    /\ \E s \in S, c \in C :
          LET country == Get(s, "country", "en")
          IN  /\ settings' = s
              /\ cdt' = Num(c)
              /\ locale' = LocaleName(country)
              /\ loc' = LocaleOf(country)
              /\ requests' = <<PriceRequest(Get(s, "dapCountry", "DE-LU"))>>
    /\ pc' = "price_wait"
    /\ UNCHANGED <<response, now, price_data, dap_data, renewable_percentage,
                   renewable_data, data, exc, rendered, outcome>>

\* the price request ends: fetch_price_data and get_dap_data finish, and
\* get_renewable_data runs up to the requests.get of the renewable fetcher
PriceResponseOver(R) ==
    /\ pc = "price_wait"
    /\ \E resp \in R, n \in NowVals, up1 \in BOOLEAN, up2 \in BOOLEAN :
          LET fetched == fetch_price_data(resp, up1)
              dap == get_dap_data(fetched, settings, loc.currencySymbol,
                                  loc.descimalSign, n, up2)
              clockRead == /\ fetched.tag = "return"
                           /\ fetched.val # None
                           /\ TruthyList(fetched.val, "price")
                           /\ TruthyList(fetched.val, "unix_seconds")
          IN  /\ response' = [url |-> "price"] @@ resp
              /\ now' = IF clockRead THEN Num(n) ELSE None
              /\ price_data' = IF fetched.tag = "return" THEN fetched.val ELSE None
              /\ IF dap.tag = "raise"
                 THEN /\ exc' = dap.exc
                      /\ outcome' = ParseFailed(dap.exc)
                      /\ pc' = "done"
                      /\ UNCHANGED <<dap_data, requests>>
                 ELSE /\ dap_data' = [dap.val EXCEPT !.icon = "icons/euro.png"]
                      /\ requests' = Append(requests, RenewableRequest("de"))
                      /\ pc' = "ren_wait"
                      /\ UNCHANGED <<exc, outcome>>
    /\ UNCHANGED <<settings, cdt, locale, loc, renewable_percentage,
                   renewable_data, data, rendered>>

\* the renewable request ends: the fetcher and get_renewable_data finish, the
\* tile is assembled and generate_image calls render_image
RenewableResponseOver(R) ==
    /\ pc = "ren_wait"
    /\ \E resp \in R, n \in NowVals, up \in BOOLEAN :
          LET fetched == fetch_renewable_share_forecast(resp, n)
              ren == get_renewable_data(fetched, settings, loc.descimalSign,
                                        "Anteil EEG", up)
          IN  /\ response' = [url |-> "ren_share_forecast"] @@ resp
              /\ now' = IF resp.kind = "json" THEN Num(n) ELSE None
              /\ renewable_percentage' =
                    IF fetched.tag = "return" THEN fetched.val ELSE None
              /\ IF ren.tag = "raise"
                 THEN /\ exc' = ren.exc
                      /\ outcome' = ParseFailed(ren.exc)
                      /\ pc' = "done"
                      /\ UNCHANGED <<renewable_data, data, rendered>>
                 ELSE /\ renewable_data' = [ren.val EXCEPT !.icon = "icons/leaf.png"]
                      /\ data' = Tile(Get(settings, "country", "en"), loc, cdt.num,
                                      dap_data,
                                      [ren.val EXCEPT !.icon = "icons/leaf.png"])
                      /\ rendered' = TRUE
                      /\ pc' = "render"
                      /\ UNCHANGED <<exc, outcome>>
    /\ price_data' = None
    /\ UNCHANGED <<settings, cdt, locale, loc, requests, dap_data>>

\* render_image returns an image or nothing
RenderReturn ==
    /\ pc = "render"
    /\ \E image \in {None, [image |-> "png"]} : outcome' = Rendered(image)
    /\ pc' = "done"
    /\ UNCHANGED <<settings, cdt, locale, loc, requests, response, now,
                   price_data, dap_data, renewable_percentage, renewable_data,
                   data, exc, rendered>>

\* generate_image is over; only the process-wide locale outlives it
Return ==
    /\ pc = "done"
    /\ pc' = "idle"
    /\ settings' = EmptyDict
    /\ cdt' = None
    /\ loc' = None
    /\ requests' = <<>>
    /\ response' = None
    /\ now' = None
    /\ price_data' = None
    /\ dap_data' = None
    /\ renewable_percentage' = None
    /\ renewable_data' = None
    /\ data' = None
    /\ exc' = NoExc
    /\ rendered' = FALSE
    /\ outcome' = None
    /\ UNCHANGED locale

GenerateImage == GenerateImageOver(AllSettings, Clocks)
PriceResponse == PriceResponseOver(Failures \cup {Json(b) : b \in SamplePriceBodies})
RenewableResponse ==
    RenewableResponseOver(Failures \cup {Json(b) : b \in SampleRenewableBodies})

\* whole builds, over the sample responses
Next == GenerateImage \/ PriceResponse \/ RenewableResponse \/ RenderReturn \/ Return
Spec == Init /\ [][Next]_vars

\* the price fetcher and selector, over every price response within the bounds
GenerateImageDap == GenerateImageOver(DapSettings, {795})
PriceResponseDap == PriceResponseOver(Failures \cup {Json(b) : b \in PriceBodies})
NextDap == GenerateImageDap \/ PriceResponseDap
SpecDap == Init /\ [][NextDap]_vars

\* the renewable fetcher and selector, over every renewable response within
\* the bounds
GenerateImageRen == GenerateImageOver(RenSettings, {795})
PriceResponseRen == PriceResponseOver({Failed("Timeout"), Json(EmptyDict)})
RenewableResponseRen ==
    RenewableResponseOver(Failures \cup {Json(b) : b \in RenewableBodies})
NextRen == GenerateImageRen \/ PriceResponseRen \/ RenewableResponseRen
SpecRen == Init /\ [][NextRen]_vars

----------------------------------------------------------------------------
(* Vocabulary of the properties *)

PriceUrl == "https://api.energy-charts.info/price"
RenewableUrl == "https://api.energy-charts.info/ren_share_forecast"

\* the price request has been answered and nothing else happened since
PriceAnswered ==
    pc \in {"ren_wait", "done"} /\ response # None /\ response.url = "price"

\* the renewable request has been answered
RenewableAnswered ==
    pc \in {"render", "done"} /\ response # None
    /\ response.url = "ren_share_forecast"

\* the body holds two parallel lists under unix_seconds and key
Parallel(body, key) ==
    /\ "unix_seconds" \in DOMAIN body
    /\ key \in DOMAIN body
    /\ Len(body["unix_seconds"]) = Len(body[key])

\* a non-empty price series was received
PriceSeries ==
    /\ PriceAnswered
    /\ response.kind = "json"
    /\ Parallel(response.body, "price")
    /\ Len(response.body["unix_seconds"]) > 0

\* the ways a price can be displayed: three decimals, the locale's decimal
\* sign, a space and the currency symbol; "N/A" in place of an absent price
Displayed(p) ==
    {(IF p = None THEN NA
      ELSE replace_decimals(Format3f(p.num, up), loc.descimalSign))
     \o <<" ", loc.currencySymbol>> : up \in BOOLEAN}

MaxOf(S) == CHOOSE i \in S : \A j \in S : j <= i

AllNA(d) ==
    /\ d.current_time = NA
    /\ d.current_price = NA
    /\ d.next_time = NA
    /\ d.next_price = NA

----------------------------------------------------------------------------
(* C1 *)

C1_Cases ==
    /\ PriceSeries
    /\ Increasing(response.body["unix_seconds"])
    /\ \E i \in 1..Len(response.body["unix_seconds"]) :
          response.body["unix_seconds"][i] <= now.num

\* C1: for a non-empty price series with strictly increasing timestamps of
\* which at least one is <= now, the displayed current time and price are
\* those of the latest entry whose timestamp is <= now (an absent price there
\* is displayed as unavailable), and the displayed next time and price are
\* those of the entry that follows it, or unavailable when none follows.
C1_CurrentIsLatestNotAfterNow ==
    C1_Cases =>
        /\ pc = "ren_wait"
        /\ LET ts == response.body["unix_seconds"]
               p  == price_data["price"]
               k  == MaxOf({i \in 1..Len(ts) : ts[i] <= now.num})
           IN  /\ dap_data.current_time = StrfHM(ts[k])
               /\ dap_data.current_price \in Displayed(p[k])
               /\ IF k < Len(ts)
                  THEN /\ dap_data.next_time = StrfHM(ts[k + 1])
                       /\ dap_data.next_price \in Displayed(p[k + 1])
                  ELSE /\ dap_data.next_time = NA
                       /\ dap_data.next_price \in Displayed(None)

----------------------------------------------------------------------------
(* C2 *)

C2_Cases ==
    /\ PriceSeries
    /\ \A i \in 1..Len(response.body["unix_seconds"]) :
          response.body["unix_seconds"][i] > now.num

\* C2: for a non-empty price series without an entry whose timestamp is
\* <= now, the first entry is displayed as current and the second entry, if
\* there is one, as next; with a single entry the next time is "N/A" and the
\* next price is unavailable.
C2_FallbackToFirstEntry ==
    C2_Cases =>
        /\ pc = "ren_wait"
        /\ LET ts == response.body["unix_seconds"]
               p  == price_data["price"]
           IN  /\ dap_data.current_time = StrfHM(ts[1])
               /\ dap_data.current_price \in Displayed(p[1])
               /\ IF Len(ts) >= 2
                  THEN /\ dap_data.next_time = StrfHM(ts[2])
                       /\ dap_data.next_price \in Displayed(p[2])
                  ELSE /\ dap_data.next_time = NA
                       /\ dap_data.next_price \in Displayed(None)

\* a series of two or more future entries with both prices present was
\* displayed
C2_Witness ==
    /\ C2_Cases
    /\ Len(response.body["unix_seconds"]) >= 2
    /\ price_data["price"][1] # None
    /\ price_data["price"][2] # None
    /\ price_data["price"][1] # price_data["price"][2]
    /\ dap_data.next_time = StrfHM(response.body["unix_seconds"][2])

----------------------------------------------------------------------------
(* C3 *)

C3_NoData ==
    /\ PriceAnswered
    /\ \/ price_data = None
       \/ response.kind = "raise"
       \/ ~("price" \in DOMAIN response.body)
       \/ ~("unix_seconds" \in DOMAIN response.body)
       \/ Len(response.body["price"]) = 0
       \/ Len(response.body["unix_seconds"]) = 0

\* C3: when the price fetch returned no data, or the price list or the
\* timestamp list is missing or empty, all four of current_time,
\* current_price, next_time and next_price are exactly "N/A", whatever
\* showPriceData is; and whenever get_dap_data returns, show is true exactly
\* when settings holds showPriceData = "true".
C3_UnavailableIsAllNA ==
    /\ C3_NoData => pc = "ren_wait" /\ AllNA(dap_data)
    /\ dap_data # None =>
          (dap_data.show <=>
              ("showPriceData" \in DOMAIN settings
               /\ settings["showPriceData"] = "true"))

\* a response without a price list was displayed while showPriceData is "true"
C3_Witness ==
    /\ C3_NoData
    /\ response.kind = "json"
    /\ "unix_seconds" \in DOMAIN response.body
    /\ dap_data.show
    /\ dap_data.current_price = NA

----------------------------------------------------------------------------
(* C4 *)

C4_FetchFailed ==
    /\ response # None
    /\ response.kind = "raise"
    /\ response.exc \in {"Timeout", "ConnectionError", "HTTPError",
                         "JSONDecodeError"}

\* C4: when the HTTP step of a fetcher fails by a timeout, by another
\* transport or HTTP-status error or by a body that is not JSON, the fetcher
\* returns None and no exception leaves it, and the selector built on it
\* returns the all-"N/A" price result, respectively the "N/A" percentage.
C4_FailedFetchIsNoData ==
    /\ (C4_FetchFailed /\ response.url = "price") =>
          /\ pc = "ren_wait"
          /\ exc = NoExc
          /\ price_data = None
          /\ AllNA(dap_data)
    /\ (C4_FetchFailed /\ response.url = "ren_share_forecast") =>
          /\ pc \in {"render", "done"}
          /\ exc = NoExc
          /\ renewable_percentage = None
          /\ renewable_data # None
          /\ renewable_data.percentage = NA

\* both fetches of one build failed, the second by a body that is not JSON,
\* and the tile was assembled
C4_Witness ==
    /\ C4_FetchFailed
    /\ response.url = "ren_share_forecast"
    /\ response.exc = "JSONDecodeError"
    /\ data # None
    /\ AllNA(data.dap)
    /\ data.renewable.percentage = NA

----------------------------------------------------------------------------
(* C5 *)

C5_Timestamps == Get(response.body, "unix_seconds", <<>>)
C5_Shares == Get(response.body, "ren_share", <<>>)

C5_Series ==
    /\ RenewableAnswered
    /\ response.kind = "json"
    /\ Len(C5_Timestamps) = Len(C5_Shares)
    /\ Ascending(C5_Timestamps)

\* the entries that may be selected: not after now, share present
C5_Valid ==
    {i \in 1..Len(C5_Timestamps) :
        C5_Timestamps[i] <= now.num /\ C5_Shares[i] # None}

\* C5: for a renewable series with ascending timestamps the fetcher returns
\* the share of the latest entry whose timestamp is <= now and whose share is
\* present; it returns None exactly when there is no such entry (the empty
\* series included) or the fetch failed; None is displayed as "N/A" and
\* nothing else is.
C5_LatestPresentShare ==
    /\ C5_Series =>
          /\ exc = NoExc
          /\ IF C5_Valid = {} THEN renewable_percentage = None
             ELSE renewable_percentage = C5_Shares[MaxOf(C5_Valid)]
    /\ (RenewableAnswered /\ response.kind = "raise") =>
          renewable_percentage = None
    /\ (RenewableAnswered /\ exc = NoExc) =>
          (renewable_data.percentage = NA <=> renewable_percentage = None)

\* the share at the latest timestamp <= now is absent and an earlier present
\* share was returned
C5_Witness ==
    /\ C5_Series
    /\ C5_Valid # {}
    /\ \E i \in 1..Len(C5_Timestamps) :
          /\ i > MaxOf(C5_Valid)
          /\ C5_Timestamps[i] <= now.num
          /\ C5_Shares[i] = None
    /\ renewable_percentage = C5_Shares[MaxOf(C5_Valid)]
    /\ renewable_data.percentage # NA

----------------------------------------------------------------------------
(* C6 *)

C6_Cases ==
    /\ PriceAnswered
    /\ response.kind = "json"
    /\ "price" \in DOMAIN response.body

\* C6: the normalised price list has the length of the received one, entry i
\* is absent exactly when the received entry i is, a present entry is the
\* received value times 0.1 rounded to the nearest hundredth (100.0 gives
\* 10.00, 0 gives 0), and the timestamp list is returned as received.
C6_NormalisationIsElementwise ==
    C6_Cases =>
        /\ price_data # None
        /\ "price" \in DOMAIN price_data
        /\ LET rcv == response.body["price"]
               out == price_data["price"]
           IN  /\ Len(out) = Len(rcv)
               /\ \A i \in 1..Len(rcv) :
                     /\ (out[i] = None) <=> (rcv[i] = None)
                     /\ rcv[i] # None =>
                           /\ 10 * out[i].num - rcv[i].num \in (-5)..5
                           /\ rcv[i].num = 10000 => out[i].num = 1000
                           /\ rcv[i].num = 0 => out[i].num = 0
        /\ ("unix_seconds" \in DOMAIN price_data)
               <=> ("unix_seconds" \in DOMAIN response.body)
        /\ "unix_seconds" \in DOMAIN response.body =>
               price_data["unix_seconds"] = response.body["unix_seconds"]

\* a list holding an absent price, a price of 0 and a price of 100.0 was
\* normalised
C6_Witness ==
    /\ C6_Cases
    /\ \E i, j, k \in 1..Len(response.body["price"]) :
          /\ response.body["price"][i] = None
          /\ response.body["price"][j] = Num(0)
          /\ response.body["price"][k] = Num(10000)
          /\ price_data["price"][k] = Num(1000)

----------------------------------------------------------------------------
(* C7 *)

\* C7: country "de" yields the decimal separator ",", the currency symbol
\* "€" and the 24-hour time; every other value of country, an absent one
\* included, yields ".", "$" and the 12-hour time with an AM/PM marker.
C7_LocaleTogglesAgree ==
    data # None =>
        IF "country" \in DOMAIN settings /\ settings["country"] = "de"
        THEN /\ data.power_plant.consumption_today
                    = <<"4", ",", "5", " ", "k", "W", "h">>
             /\ data.dap.currency_symbol = "€"
             /\ data.current_date.time = ClockHM(cdt.num)
        ELSE /\ data.power_plant.consumption_today
                    = <<"4", ".", "5", " ", "k", "W", "h">>
             /\ data.dap.currency_symbol = "$"
             /\ data.current_date.time = ClockIM(cdt.num)
             /\ data.current_date.am_pm \in {<<"A", "M">>, <<"P", "M">>}

----------------------------------------------------------------------------
(* C8 *)

\* C8: an exception that leaves parse_solar_data is replaced by a
\* RuntimeError whose message is "please check logs." and render_image is not
\* called; when render_image returns no image a RuntimeError is raised;
\* otherwise the image is returned. generate_image raises nothing but
\* RuntimeError.
C8_OnlyOpaqueRuntimeError ==
    pc = "done" =>
        /\ exc # NoExc =>
              /\ outcome = [tag |-> "raise", exc |-> "RuntimeError",
                            msg |-> "please check logs."]
              /\ ~rendered
        /\ exc = NoExc =>
              /\ rendered
              /\ \/ outcome = [tag |-> "return", val |-> [image |-> "png"]]
                 \/ outcome = [tag |-> "raise", exc |-> "RuntimeError",
                               msg |-> "Failed to take screenshot, please check logs."]
        /\ outcome.tag = "raise" => outcome.exc = "RuntimeError"

\* an IndexError left parse_solar_data and generate_image ended with the
\* opaque RuntimeError
C8_Witness ==
    /\ pc = "done"
    /\ exc = "IndexError"
    /\ outcome.tag = "raise"
    /\ outcome.msg = "please check logs."
    /\ ~rendered

----------------------------------------------------------------------------
(* C9 *)

\* C9: a tile build issues exactly one request to the price endpoint and
\* then exactly one to the renewable-share endpoint, whatever the outcome of
\* the price request.
C9_OnePriceThenOneRenewable ==
    pc \in {"render", "done"} =>
        /\ Len(requests) = 2
        /\ requests[1].url = PriceUrl
        /\ requests[2].url = RenewableUrl

----------------------------------------------------------------------------
(* C10 *)

\* C10: no response that parses as JSON makes the tile build raise.
C10_JsonNeverRaises ==
    (response # None /\ response.kind = "json") => exc = NoExc

====
